---- MODULE Spec2Model ----
(***************************************************************************)
(* Model of sequelize-seeder-factory-json: the SeederConfig resolver, the  *)
(* DataProcessor normalizer and the SeederFactory orchestrator             *)
(* (processData / insertData / bulkInsertInBatches / removeData) driving   *)
(* an external query interface (bulkInsert / bulkDelete).                  *)
(*                                                                         *)
(* An async method is cut at its suspension points (the awaited file read  *)
(* and each awaited database call): one action runs the code from one      *)
(* await to the next.  The database settles an in-flight call by           *)
(* DbResolve or DbReject; the continuation of the awaiting method then     *)
(* runs as its own action.                                                 *)
(***************************************************************************)
EXTENDS Integers, Sequences, FiniteSets, TLC

VARIABLES
    seed,       \* the seeder file's constants: ENTITY_NAME, CUSTOM_CONFIG
    models,     \* the models directory: entity type -> scan result of its model file
    file,       \* the content of the data file on disk
    clock,      \* the wall clock (what new Date() reads)
    cache,      \* SeederConfig.cache: cache key -> resolved config
    db,         \* the database: table name -> sequence of rows
    pc,         \* where the running async method is suspended ("idle": none runs)
    config,     \* local `config` of the running method
    data,       \* local record list of the running insert (dataWithTimestamps / data)
    idx,        \* local loop index `i` of the running insert
    size,       \* local `batchSize` of the running insert
    base,       \* rows the target table held when the running invocation started
    calls,      \* database calls issued by the current (or last) invocation, in order
    inflight,   \* database calls issued and not yet settled
    settled,    \* how the awaited database call settled
    processed,  \* value returned by the last processData
    filtering,  \* the filterValidFields option of the last processData
    outcome,    \* how the last invocation ended
    discovered, \* did the last config resolution run the auto-discovery
    args,       \* a direct call of a DataProcessor / SeederValidator function
    result,     \* what that call returned or threw, call after call
    ops         \* the factory operations running concurrently on one SeederConfig

vars == <<seed, models, file, clock, cache, db, pc, config, data, idx, size,
          base, calls, inflight, settled, processed, filtering, outcome,
          discovered, args, result, ops>>

\* the variables of a direct library call, and the concurrent operations
lib == <<args, result, ops>>

(***************************************************************************)
(* Bounds of the model.                                                    *)
(***************************************************************************)
MaxLen == 3         \* longest array in the data file
MaxClock == 1       \* the clock reads 0..MaxClock
MaxRows == MaxLen + 1   \* an insert starts only if the table stays within MaxRows
MaxCalls == MaxLen + 2  \* the call log keeps the first MaxCalls calls
MaxData == 2        \* longest array handed to validateSchema
MaxOps == 2         \* operations running concurrently on one factory

(***************************************************************************)
(* JSON / JavaScript values.  A string is a sequence of characters.        *)
(***************************************************************************)
Null == [t |-> "null"]
Undefined == [t |-> "undefined"]
Str(s) == [t |-> "string", s |-> s]
Num(n) == [t |-> "number", n |-> n]
Arr(a) == [t |-> "array", a |-> a]
Name(x) == [t |-> "string", name |-> x]
Obj(f) == [t |-> "object", f |-> f]
DateOf(ms) == [t |-> "date", ms |-> ms]
Bool(b) == [t |-> "boolean", b |-> b]
BigInt(n) == [t |-> "bigint", n |-> n]

EmptyObject == [k \in {} |-> Null]

\* JavaScript truthiness of a value
Truthy(v) ==
    /\ v.t \notin {"null", "undefined"}
    /\ v.t = "number" => v.n # 0
    /\ v.t = "boolean" => v.b
    /\ (v.t = "string" /\ "s" \in DOMAIN v) => v.s # <<>>

\* typeof value
Typeof(v) ==
    CASE v.t \in {"null", "object", "array", "date"} -> "object"
      [] OTHER -> v.t

\* the decimal digits of a small number, as a string
Digits(n) == <<<<"0", "1", "2", "3", "4", "5", "6", "7", "8", "9">>[n + 1]>>

\* Object.entries(value): the own enumerable properties (of an array, its indices)
Entries(v) ==
    CASE v.t = "object" -> v.f
      [] v.t = "array" -> [k \in {Digits(i - 1)[1] : i \in 1..Len(v.a)} |->
                            v.a[CHOOSE i \in 1..Len(v.a) : Digits(i - 1)[1] = k]]
      [] OTHER -> EmptyObject

Max(a, b) == IF a > b THEN a ELSE b
Min(a, b) == IF a < b THEN a ELSE b

Range(s) == {s[k] : k \in 1..Len(s)}

RECURSIVE TrimStart(_)
TrimStart(s) == IF s # <<>> /\ Head(s) = " " THEN TrimStart(Tail(s)) ELSE s

RECURSIVE TrimEnd(_)
TrimEnd(s) ==
    IF s # <<>> /\ s[Len(s)] = " " THEN TrimEnd(SubSeq(s, 1, Len(s) - 1)) ELSE s

\* String.prototype.trim
Trim(s) == TrimEnd(TrimStart(s))

(***************************************************************************)
(* Array.prototype.slice(start, end) on a sequence (0-based, end           *)
(* exclusive, negative indices count from the end).                        *)
(***************************************************************************)
\* Slice with the end index taken as inclusive (a faulty slice)
SliceInclusive(s, start, end) ==
    SubSeq(s, Min(start, Len(s)) + 1, Min(end + 1, Len(s)))

SliceIndex(len, k) == IF k < 0 THEN Max(len + k, 0) ELSE Min(k, len)

Slice(s, start, end) ==
    SubSeq(s, SliceIndex(Len(s), start) + 1, SliceIndex(Len(s), end))

(***************************************************************************)
(* Inputs and environment.                                                 *)
(***************************************************************************)
EntityTypes == {"Users", "Products", "Users_{}"}
TableNames == {"People", "Products", "Catalog"}

NoMatch == "<no match>"
NoModel == [found |-> FALSE]
\* a model file, by what the scans of SeederConfig match in its text
ModelFile(tableName, declared) ==
    [found |-> TRUE, tableName |-> tableName, declared |-> declared]

DataPath(entityType) ==
    CASE entityType = "Users" -> "data/users.json"
      [] entityType = "Products" -> "data/products.json"
      [] OTHER -> "data/users_{}.json"

\* the data file on disk: absent, not JSON, a JSON value that is no array, an array
Missing == [kind |-> "missing"]
BadJson == [kind |-> "invalid"]
NotArray == [kind |-> "value", value |-> Str(<<"a">>)]
ArrayOf(items) == [kind |-> "array", items |-> items]

(***************************************************************************)
(* SeederConfig                                                            *)
(***************************************************************************)
DefaultBatchSize == 1000
SyntheticFields == {"id", "createdAt", "updatedAt"}

\* the characters of the names that occur in a cache key
Chars(name) ==
    CASE name = "Users" -> <<"U", "s", "e", "r", "s">>
      [] name = "Products" -> <<"P", "r", "o", "d", "u", "c", "t", "s">>
      [] name = "Users_{}" -> <<"U", "s", "e", "r", "s", "_", "{", "}">>
      [] name = "batchSize" -> <<"b", "a", "t", "c", "h", "S", "i", "z", "e">>
      [] name = "uniqueFields" ->
            <<"u", "n", "i", "q", "u", "e", "F", "i", "e", "l", "d", "s">>
      [] name = "validFields" -> <<"v", "a", "l", "i", "d", "F", "i", "e", "l", "d", "s">>
      [] name = "email" -> <<"e", "m", "a", "i", "l">>
      [] name = "name" -> <<"n", "a", "m", "e">>

\* the keys of a custom config in the order the seeder file writes them
KeyOrder == <<"batchSize", "uniqueFields", "validFields">>

Quoted(chars) == <<"\"">> \o chars \o <<"\"">>

\* the texts joined by commas
RECURSIVE Joined(_)
Joined(texts) ==
    IF texts = <<>> THEN <<>>
    ELSE IF Len(texts) = 1 THEN texts[1]
    ELSE texts[1] \o <<",">> \o Joined(Tail(texts))

\* JSON.stringify of a number, of an array of names
ValueText(v) ==
    CASE v.t = "number" -> (IF v.n < 0 THEN <<"-">> \o Digits(0 - v.n) ELSE Digits(v.n))
      [] v.t = "array" ->
            <<"[">> \o Joined([k \in 1..Len(v.a) |-> Quoted(Chars(v.a[k]))]) \o <<"]">>

\* JSON.stringify(customConfig): the own keys whose value is not undefined
Stringify(customConfig) ==
    LET written == SelectSeq(KeyOrder, LAMBDA k : k \in DOMAIN customConfig
                                                  /\ customConfig[k] # Undefined)
    IN <<"{">>
       \o Joined([k \in 1..Len(written) |->
                    Quoted(Chars(written[k])) \o <<":">> \o ValueText(customConfig[written[k]])])
       \o <<"}">>

\* `${entityType}_${JSON.stringify(customConfig)}`
CacheKey(entityType, customConfig) == Chars(entityType) \o <<"_">> \o Stringify(customConfig)

autoDiscoverTableName(entityType) ==
    IF entityType \in {"Users", "User"} THEN "People"
    ELSE IF models[entityType].found /\ models[entityType].tableName # NoMatch
         THEN models[entityType].tableName
         ELSE entityType

autoDiscoverValidFields(entityType) ==
    IF ~models[entityType].found THEN <<>>
    ELSE SelectSeq(models[entityType].declared, LAMBDA f : f \notin SyntheticFields)

autoDiscoverUniqueFields(entityType) ==
    IF entityType \in {"Users", "User"} THEN <<"userName", "email">> ELSE <<"name">>

getDataFileName(entityType) == DataPath(entityType)

AutoConfig(entityType) ==
    [entityType |-> Name(entityType),
     tableName |-> Name(autoDiscoverTableName(entityType)),
     dataFile |-> Name(getDataFileName(entityType)),
     batchSize |-> Num(DefaultBatchSize),
     validFields |-> Arr(autoDiscoverValidFields(entityType)),
     uniqueFields |-> Arr(autoDiscoverUniqueFields(entityType))]

\* { ...autoConfig, ...customConfig }
Merge(autoConfig, customConfig) ==
    [k \in DOMAIN autoConfig \cup DOMAIN customConfig |->
        IF k \in DOMAIN customConfig THEN customConfig[k] ELSE autoConfig[k]]

\* CacheHit when the lookup is never taken (a cache that is not consulted)
CacheNeverHit(entityType, customConfig) == FALSE

\* this.cache.has(cacheKey)
CacheHit(entityType, customConfig) == CacheKey(entityType, customConfig) \in DOMAIN cache

\* the config getEntityConfig returns, whether it ran the auto-discovery, and the
\* cache it leaves
getEntityConfig(entityType, customConfig) ==
    IF CacheHit(entityType, customConfig)
    THEN cache[CacheKey(entityType, customConfig)]
    ELSE Merge(AutoConfig(entityType), customConfig)

Discovers(entityType, customConfig) == ~CacheHit(entityType, customConfig)

CacheAfter(entityType, customConfig) ==
    IF CacheHit(entityType, customConfig)
    THEN cache
    ELSE [k \in DOMAIN cache \cup {CacheKey(entityType, customConfig)} |->
            IF k \in DOMAIN cache THEN cache[k]
            ELSE Merge(AutoConfig(entityType), customConfig)]

(***************************************************************************)
(* DataProcessor                                                           *)
(***************************************************************************)
\* processGeneric throws: !item || typeof item !== "object"
processGenericThrows(item) == ~Truthy(item) \/ Typeof(item) # "object"

\* Kept that tests the length of the string before the trim (a misplaced test)
KeptNonEmpty(value) ==
    /\ value.t \notin {"null", "undefined"}
    /\ value.t = "string" => value.s # <<>>

\* does processGeneric keep the field with this value
Kept(value) ==
    /\ value.t \notin {"null", "undefined"}
    /\ value.t = "string" => Trim(value.s) # <<>>

\* Cleaned that keeps strings as they are (a missing trim)
CleanedUntrimmed(value) == IF value.t = "bigint" THEN Str(Digits(value.n)) ELSE value

\* the value processGeneric stores: strings trimmed, String(value) for a value
\* of no listed type, every other value as it is
Cleaned(value) ==
    CASE value.t = "string" -> Str(Trim(value.s))
      [] value.t = "bigint" -> Str(Digits(value.n))
      [] OTHER -> value

processGeneric(item) ==
    [k \in {x \in DOMAIN Entries(item) : Kept(Entries(item)[x])} |->
        Cleaned(Entries(item)[k])]

\* a direct call of DataProcessor.processGeneric: what it returns, or its throw
Normalize(item) ==
    IF processGenericThrows(item)
    THEN [status |-> "threw", error |-> "Invalid item: must be an object"]
    ELSE [status |-> "returned", value |-> Obj(processGeneric(item))]

(***************************************************************************)
(* SeederValidator                                                         *)
(***************************************************************************)
RECURSIVE Flatten(_)
Flatten(seqs) == IF seqs = <<>> THEN <<>> ELSE Head(seqs) \o Flatten(Tail(seqs))

\* item[fieldName]
Get(item, fieldName) ==
    IF fieldName \in DOMAIN Entries(item) THEN Entries(item)[fieldName] ELSE Undefined

\* fieldSchema.required, fieldSchema.type, ...: undefined when the rule is absent
Rule(fieldSchema, key) ==
    IF key \in DOMAIN fieldSchema THEN fieldSchema[key] ELSE Undefined

\* value === null || value === undefined || value === ""
isValueEmpty(value) == value \in {Null, Undefined, Str(<<>>)}

\* /^[^\s@]+@[^\s@]+\.[^\s@]+$/.test(s)
emailRegex(s) ==
    \E a \in 1..Len(s) : \E d \in 1..Len(s) :
        /\ s[a] = "@" /\ s[d] = "."
        /\ a > 1 /\ d > a + 1 /\ d < Len(s)
        /\ \A k \in 1..Len(s) : k # a => s[k] \notin {"@", " "}

\* new RegExp(pattern).test(s), for the patterns the schemas here use
RegExpTest(pattern, s) ==
    CASE pattern = "^a" -> s # <<>> /\ s[1] = "a"
      [] OTHER -> TRUE

\* _validateFieldType: the error it returns, "none" for null
validateFieldType(value, expectedType) ==
    CASE expectedType = "string" ->
            IF Typeof(value) # "string" THEN "type" ELSE "none"
      [] expectedType = "number" ->
            IF Typeof(value) # "number" THEN "type" ELSE "none"
      [] expectedType = "boolean" ->
            IF Typeof(value) # "boolean" THEN "type" ELSE "none"
      [] expectedType = "email" ->
            IF Typeof(value) # "string" \/ ~emailRegex(value.s) THEN "type" ELSE "none"
      [] expectedType = "array" ->
            IF value.t # "array" THEN "type" ELSE "none"
      [] OTHER -> "unknownType"

\* the length checks of _validateField
LengthErrors(value, fieldSchema) ==
    IF Typeof(value) # "string" THEN <<>>
    ELSE (IF Truthy(Rule(fieldSchema, "minLength"))
                /\ Len(value.s) < Rule(fieldSchema, "minLength").n
          THEN <<"minLength">> ELSE <<>>)
         \o (IF Truthy(Rule(fieldSchema, "maxLength"))
                /\ Len(value.s) > Rule(fieldSchema, "maxLength").n
             THEN <<"maxLength">> ELSE <<>>)

\* the range checks of _validateField
RangeErrors(value, fieldSchema) ==
    IF Typeof(value) # "number" THEN <<>>
    ELSE (IF Rule(fieldSchema, "min") # Undefined /\ value.n < Rule(fieldSchema, "min").n
          THEN <<"min">> ELSE <<>>)
         \o (IF Rule(fieldSchema, "max") # Undefined
                /\ value.n > Rule(fieldSchema, "max").n
             THEN <<"max">> ELSE <<>>)

\* the enum check of _validateField
EnumErrors(value, fieldSchema) ==
    IF Truthy(Rule(fieldSchema, "enum")) /\ value \notin Range(Rule(fieldSchema, "enum").a)
    THEN <<"enum">> ELSE <<>>

\* the pattern check of _validateField
PatternErrors(value, fieldSchema) ==
    IF Truthy(Rule(fieldSchema, "pattern")) /\ Typeof(value) = "string"
        /\ ~RegExpTest(Rule(fieldSchema, "pattern").name, value.s)
    THEN <<"pattern">> ELSE <<>>

\* validateField that goes on after a type error (a missing early return)
validateFieldNoShortCircuit(value, fieldSchema) ==
    IF isValueEmpty(value)
    THEN (IF Truthy(Rule(fieldSchema, "required")) THEN <<"required">> ELSE <<>>)
    ELSE (IF Truthy(Rule(fieldSchema, "type"))
                /\ validateFieldType(value, Rule(fieldSchema, "type").name) # "none"
          THEN <<validateFieldType(value, Rule(fieldSchema, "type").name)>> ELSE <<>>)
         \o LengthErrors(value, fieldSchema) \o RangeErrors(value, fieldSchema)
         \o EnumErrors(value, fieldSchema) \o PatternErrors(value, fieldSchema)

\* _validateField: the errors of one field of one record, by kind
validateField(value, fieldSchema) ==
    IF Truthy(Rule(fieldSchema, "required")) /\ isValueEmpty(value) THEN <<"required">>
    ELSE IF ~Truthy(Rule(fieldSchema, "required")) /\ isValueEmpty(value) THEN <<>>
    ELSE IF Truthy(Rule(fieldSchema, "type"))
            /\ validateFieldType(value, Rule(fieldSchema, "type").name) # "none"
    THEN <<validateFieldType(value, Rule(fieldSchema, "type").name)>>
    ELSE LengthErrors(value, fieldSchema) \o RangeErrors(value, fieldSchema)
         \o EnumErrors(value, fieldSchema) \o PatternErrors(value, fieldSchema)

\* an error message of validateSchema, by what it cites
SchemaError(kind, index, fieldName) == [kind |-> kind, index |-> index, field |-> fieldName]

\* the errors validateSchema pushes for the item at `index`; a schema is the
\* sequence of its entries, in the order Object.entries lists them
ItemErrors(item, index, schema) ==
    IF ~Truthy(item) \/ Typeof(item) # "object"
    THEN <<SchemaError("object", index, "")>>
    ELSE Flatten([k \in 1..Len(schema) |->
            [e \in 1..Len(validateField(Get(item, schema[k].name), schema[k].rules)) |->
                SchemaError(validateField(Get(item, schema[k].name), schema[k].rules)[e],
                            index, schema[k].name)]])

\* the warning validateSchema pushes for the item at `index`, if any
ItemWarnings(item, index, schema) ==
    IF ~Truthy(item) \/ Typeof(item) # "object" THEN <<>>
    ELSE IF DOMAIN Entries(item) \ {schema[k].name : k \in 1..Len(schema)} # {}
    THEN <<[index |-> index,
            unexpected |-> DOMAIN Entries(item) \ {schema[k].name : k \in 1..Len(schema)}]>>
    ELSE <<>>

ValidationResult(errors, warnings) ==
    [isValid |-> errors = <<>>, errors |-> errors, warnings |-> warnings]

\* SeederValidator.validateSchema(data, schema), on an array value or another value
validateSchema(array, schema) ==
    IF array.t # "array"
    THEN [isValid |-> FALSE, errors |-> <<"data must be an array">>, warnings |-> <<>>]
    ELSE ValidationResult(
            Flatten([k \in 1..Len(array.a) |-> ItemErrors(array.a[k], k - 1, schema)]),
            Flatten([k \in 1..Len(array.a) |-> ItemWarnings(array.a[k], k - 1, schema)]))

\* valueMap.get(value): the index stored for the value
MapGet(valueMap, value) ==
    valueMap[CHOOSE k \in 1..Len(valueMap) : valueMap[k].value = value].index

MapHas(valueMap, value) == \E k \in 1..Len(valueMap) : valueMap[k].value = value

\* the map after valueMap.set(value, index) on every record (a missing else)
MapSetAlways(valueMap, value, index) ==
    SelectSeq(valueMap, LAMBDA e : e.value # value)
        \o <<[value |-> value, index |-> index]>>

\* the map after the record at `index`: the value is set when the map lacks it
MapSet(valueMap, value, index) ==
    IF MapHas(valueMap, value) THEN valueMap
    ELSE Append(valueMap, [value |-> value, index |-> index])

\* the errors validateUniqueness pushes for one field, from position `index` on
RECURSIVE FieldDuplicates(_, _, _, _)
FieldDuplicates(items, fieldName, index, valueMap) ==
    IF index >= Len(items) THEN <<>>
    ELSE IF isValueEmpty(Get(items[index + 1], fieldName))
    THEN FieldDuplicates(items, fieldName, index + 1, valueMap)
    ELSE (IF MapHas(valueMap, Get(items[index + 1], fieldName))
          THEN <<[field |-> fieldName,
                  value |-> Get(items[index + 1], fieldName),
                  first |-> MapGet(valueMap, Get(items[index + 1], fieldName)),
                  index |-> index]>>
          ELSE <<>>)
         \o FieldDuplicates(items, fieldName, index + 1,
                MapSet(valueMap, Get(items[index + 1], fieldName), index))

\* item[fieldName] throws a TypeError on a null or undefined item
validateUniquenessThrows(array, uniqueFields) ==
    /\ array.t = "array"
    /\ uniqueFields # <<>>
    /\ \E k \in 1..Len(array.a) : array.a[k].t \in {"null", "undefined"}

\* SeederValidator.validateUniqueness(data, uniqueFields)
validateUniqueness(array, uniqueFields) ==
    IF array.t # "array"
    THEN [isValid |-> FALSE, errors |-> <<"data must be an array">>, warnings |-> <<>>]
    ELSE ValidationResult(
            Flatten([k \in 1..Len(uniqueFields) |->
                        FieldDuplicates(array.a, uniqueFields[k], 0, <<>>)]),
            <<>>)

\* result.errors / result.warnings spread into the report: nothing when absent
ListOf(validationResult, key) ==
    IF key \in DOMAIN validationResult THEN validationResult[key] ELSE <<>>

\* Passes that looks at the errors of the result (a count by errors)
PassesByErrors(validationResult) == ListOf(validationResult, "errors") = <<>>

\* if (result.isValid) passedValidations++
Passes(validationResult) ==
    "isValid" \in DOMAIN validationResult /\ validationResult["isValid"]

\* SeederValidator.generateValidationReport(validationResults)
generateValidationReport(validationResults) ==
    LET allErrors == Flatten([k \in 1..Len(validationResults) |->
                                ListOf(validationResults[k], "errors")])
        allWarnings == Flatten([k \in 1..Len(validationResults) |->
                                ListOf(validationResults[k], "warnings")])
        totalValidations == Len(validationResults)
        passedValidations ==
            Cardinality({k \in 1..Len(validationResults) : Passes(validationResults[k])})
    IN [isValid |-> allErrors = <<>>,
        totalValidations |-> totalValidations,
        passedValidations |-> passedValidations,
        failedValidations |-> totalValidations - passedValidations,
        errors |-> allErrors,
        warnings |-> allWarnings]

(***************************************************************************)
(* SeederFactory: pure parts                                               *)
(***************************************************************************)
\* FilterFields that pushes the record unfiltered (a faulty projection)
FilterNothing(rec, validFields) == rec

\* the projection of processData onto config.validFields
FilterFields(rec, validFields) ==
    [k \in {x \in Range(validFields) : x \in DOMAIN rec} |-> rec[k]]

\* filterValidFields && config.validFields
FilterApplies(cfg, filterValidFields) == filterValidFields /\ Truthy(cfg.validFields)

\* one pass of the loop body of processData
ProcessItem(item, cfg, filterValidFields) ==
    IF FilterApplies(cfg, filterValidFields)
    THEN FilterFields(processGeneric(item), cfg.validFields.a)
    ELSE processGeneric(item)

\* { ...item, createdAt: c, updatedAt: u }
Stamp(item, c, u) ==
    [k \in DOMAIN item \cup {"createdAt", "updatedAt"} |->
        IF k = "createdAt" THEN DateOf(c)
        ELSE IF k = "updatedAt" THEN DateOf(u)
        ELSE item[k]]

\* SeederFactory.addTimestamps(data, now)
addTimestamps(records, now) == [k \in 1..Len(records) |-> Stamp(records[k], now, now)]

\* insertData: const batchSize = config.batchSize || 1000
InsertBatchSize(cfg) == IF Truthy(cfg.batchSize) THEN cfg.batchSize.n ELSE DefaultBatchSize

\* i += batchSize.  Below -len every slice(i, i + batchSize) of a negative batchSize
\* is empty and i < len stays true, so those values of i are kept as one.
NextIndex(i, batchSize, len) == Max(i + batchSize, 0 - len)

\* the loop test i < data.length
LoopContinues(i, len) == i < len

\* the batches bulkInsertInBatches builds before its first database call
RECURSIVE BatchesFrom(_, _, _)
BatchesFrom(records, i, batchSize) ==
    IF i < Len(records)
    THEN <<Slice(records, i, i + batchSize)>> \o BatchesFrom(records, i + batchSize, batchSize)
    ELSE <<>>

Batches(records, batchSize) == BatchesFrom(records, 0, batchSize)

\* Conditions built for the first unique field only (a loop that stops early)
ConditionsFirstOnly(items, uniqueFields) ==
    IF uniqueFields = <<>> \/ items = <<>> THEN <<>>
    ELSE LET vals == SelectSeq([k \in 1..Len(items) |->
                                    IF items[k].t = "object"
                                        /\ Head(uniqueFields) \in DOMAIN items[k].f
                                    THEN items[k].f[Head(uniqueFields)] ELSE Null],
                               LAMBDA v : v # Null)
         IN IF vals # <<>> THEN <<[field |-> Head(uniqueFields), in |-> vals]>> ELSE <<>>

\* removeData: data.map(item => item[field]).filter(val => val != null)
FieldValues(items, field) ==
    LET vals == [k \in 1..Len(items) |->
                    IF items[k].t = "object" /\ field \in DOMAIN items[k].f
                    THEN items[k].f[field] ELSE Undefined]
    IN SelectSeq(vals, LAMBDA v : v.t \notin {"null", "undefined"})

\* item[field] throws a TypeError when item is null
FieldValuesThrow(items) == \E k \in 1..Len(items) : items[k].t \in {"null", "undefined"}

RECURSIVE Conditions(_, _)
Conditions(items, uniqueFields) ==
    IF uniqueFields = <<>> THEN <<>>
    ELSE (IF FieldValues(items, Head(uniqueFields)) # <<>>
          THEN <<[field |-> Head(uniqueFields),
                  in |-> FieldValues(items, Head(uniqueFields))]>>
          ELSE <<>>) \o Conditions(items, Tail(uniqueFields))

\* config.uniqueFields && config.uniqueFields.length > 0
HasUniqueFields(cfg) == Truthy(cfg.uniqueFields) /\ Len(cfg.uniqueFields.a) > 0

(***************************************************************************)
(* The query interface and the database behind it.                         *)
(***************************************************************************)
BulkInsert(tableName, rows) == [op |-> "bulkInsert", table |-> tableName, rows |-> rows]
BulkDelete(tableName, where) == [op |-> "bulkDelete", table |-> tableName, where |-> where]
WhereOr(conditions) == [t |-> "or", conditions |-> conditions]

Matches(row, where) ==
    \/ where.t = "null"
    \/ /\ where.t = "or"
       /\ \E k \in 1..Len(where.conditions) :
            /\ where.conditions[k].field \in DOMAIN row
            /\ row[where.conditions[k].field] \in Range(where.conditions[k].in)

\* the rows of a table once the database has carried out a call
Apply(rows, call) ==
    IF call.op = "bulkInsert" THEN rows \o call.rows
    ELSE SelectSeq(rows, LAMBDA r : ~Matches(r, call.where))

Log(log, call) == IF Len(log) < MaxCalls THEN Append(log, call) ELSE log

\* Awaited when the call is fired and not awaited (a missing await)
NotAwaited == TRUE

\* `await`: the method goes on only when the call it issued has settled
Awaited == inflight = {}

\* the awaited call rejected: the await throws into the enclosing catch
Rejected == settled = "rejected"

(***************************************************************************)
(* How an invocation ends.                                                 *)
(***************************************************************************)
NoOutcome == [method |-> "none", status |-> "none", error |-> "none"]
Running(method) == [method |-> method, status |-> "running", error |-> "none"]
Returned(method) == [method |-> method, status |-> "returned", error |-> "none"]
Threw(method, error) == [method |-> method, status |-> "threw", error |-> error]

ErrNotFound == "Data file not found"
ErrInvalidJson == "Invalid JSON in data file"
ErrNotArray == "Data must be an array"
ErrInvalidItem == "Invalid item: must be an object"
ErrBatchSize == "Batch size must be greater than 0"
ErrDatabase == "database call rejected"

\* loadDataFileError that reports only the absent file (a missing SyntaxError branch)
loadDataFileLenient == IF file.kind = "missing" THEN ErrNotFound ELSE "none"

\* _loadDataFile: the error it throws, or "none" when it returns the parsed value
loadDataFileError ==
    CASE file.kind = "missing" -> ErrNotFound
      [] file.kind = "invalid" -> ErrInvalidJson
      [] OTHER -> "none"

IsArray == file.kind = "array"

SeedConfig == getEntityConfig(seed.entityType, seed.customConfig)
SeedCache == CacheAfter(seed.entityType, seed.customConfig)
SeedDiscovers == Discovers(seed.entityType, seed.customConfig)

(***************************************************************************)
(* processData                                                             *)
(***************************************************************************)
\* up to `await this._loadDataFile(config.dataFile)`
ProcessData(filterValidFields) ==
    /\ pc = "idle"
    /\ config' = SeedConfig
    /\ cache' = SeedCache
    /\ discovered' = SeedDiscovers
    /\ filtering' = filterValidFields
    /\ calls' = <<>>
    /\ outcome' = Running("processData")
    /\ pc' = "processData"
    /\ UNCHANGED <<lib, seed, models, file, clock, db, data, idx, size, base,
                   inflight, settled, processed>>

\* from the file read to the return or the throw
ProcessDataLoaded ==
    /\ pc = "processData"
    /\ pc' = "done"
    /\ IF loadDataFileError # "none"
       THEN /\ outcome' = Threw("processData", loadDataFileError)
            /\ UNCHANGED processed
       ELSE IF ~IsArray
       THEN /\ outcome' = Threw("processData", ErrNotArray)
            /\ UNCHANGED processed
       ELSE IF \E k \in 1..Len(file.items) : processGenericThrows(file.items[k])
       THEN /\ outcome' = Threw("processData", ErrInvalidItem)
            /\ UNCHANGED processed
       ELSE /\ outcome' = Returned("processData")
            /\ processed' = [k \in 1..Len(file.items) |->
                                ProcessItem(file.items[k], config, filtering)]
    /\ UNCHANGED <<lib, discovered, seed, models, file, clock, cache, db, config, data, idx, size,
                   base, calls, inflight, settled, filtering>>

(***************************************************************************)
(* insertData                                                              *)
(***************************************************************************)
\* the readings of new Date() in the map of insertData: two per record, in order,
\* none earlier than the clock and none earlier than the one before
Readings(n) ==
    {r \in [1..(2 * n) -> clock..MaxClock] :
        \A k \in 1..(2 * n - 1) : r[k] <= r[k + 1]}

\* createdAt: new Date(), updatedAt: new Date(), record by record
StampAll(records, r) ==
    [k \in 1..Len(records) |-> Stamp(records[k], r[2 * k - 1], r[2 * k])]

\* issue one database call, logged after `log`, and suspend on it
Issue(log, call) ==
    /\ calls' = Log(log, call)
    /\ inflight' = inflight \cup {[id |-> Len(log), call |-> call]}
    /\ settled' = "pending"

\* up to the first `await this.queryInterface.bulkInsert(...)`, or to the return
InsertData ==
    /\ pc = "idle"
    /\ Len(db[SeedConfig.tableName.name]) + Len(processed) <= MaxRows
    /\ config' = SeedConfig
    /\ cache' = SeedCache
    /\ discovered' = SeedDiscovers
    /\ \E r \in Readings(Len(processed)) :
        /\ data' = StampAll(processed, r)
        /\ clock' = IF Len(processed) = 0 THEN clock ELSE r[2 * Len(processed)]
    /\ size' = InsertBatchSize(config')
    /\ idx' = 0
    /\ base' = db[config'.tableName.name]
    /\ IF LoopContinues(0, Len(data'))
       THEN /\ Issue(<<>>, BulkInsert(config'.tableName.name, Slice(data', 0, size')))
            /\ pc' = "insertData"
            /\ outcome' = Running("insertData")
       ELSE /\ calls' = <<>>
            /\ UNCHANGED <<inflight, settled>>
            /\ pc' = "done"
            /\ outcome' = Returned("insertData")
    /\ UNCHANGED <<lib, seed, models, file, db, processed, filtering>>

\* InsertDataThrows when the catch swallows the rejection (a missing rethrow)
InsertDataSwallows == FALSE

\* catch (error) { ...; throw error } around the loop of insertData
InsertDataThrows == Rejected

\* after the awaited bulkInsert: the catch rethrows, or the loop goes on
InsertDataResume ==
    /\ pc = "insertData"
    /\ Awaited
    /\ IF InsertDataThrows
       THEN /\ pc' = "done"
            /\ outcome' = Threw("insertData", ErrDatabase)
            /\ UNCHANGED <<idx, calls, inflight, settled>>
       ELSE /\ idx' = NextIndex(idx, size, Len(data))
            /\ IF LoopContinues(idx', Len(data))
               THEN /\ Issue(calls, BulkInsert(config.tableName.name,
                                               Slice(data, idx', idx' + size)))
                    /\ UNCHANGED <<pc, outcome>>
               ELSE /\ pc' = "done"
                    /\ outcome' = Returned("insertData")
                    /\ UNCHANGED <<calls, inflight, settled>>
    /\ UNCHANGED <<lib, discovered, seed, models, file, clock, cache, db, config, data, size, base,
                   processed, filtering>>

(***************************************************************************)
(* The database settles an in-flight call.                                 *)
(***************************************************************************)
DbResolve ==
    /\ \E c \in inflight :
        /\ db' = [db EXCEPT ![c.call.table] = Apply(db[c.call.table], c.call)]
        /\ inflight' = inflight \ {c}
    /\ settled' = "fulfilled"
    /\ UNCHANGED <<lib, discovered, seed, models, file, clock, cache, pc, config, data, idx, size,
                   base, calls, processed, filtering, outcome>>

DbReject ==
    /\ \E c \in inflight : inflight' = inflight \ {c}
    /\ settled' = "rejected"
    /\ UNCHANGED <<lib, discovered, seed, models, file, clock, cache, db, pc, config, data, idx, size,
                   base, calls, processed, filtering, outcome>>

(***************************************************************************)
(* SeederFactory.bulkInsertInBatches (static)                              *)
(***************************************************************************)
\* the batch sizes a caller passes (the parameter defaults to 1000)
BatchSizeArgs == {0 - 1, 0, 1, 2, DefaultBatchSize}

\* up to the first `await queryInterface.bulkInsert(...)`, or to the return or throw
BulkInsertInBatches(tableName, batchSize) ==
    /\ pc = "idle"
    /\ Len(db[tableName]) + Len(processed) <= MaxRows
    /\ data' = addTimestamps(processed, clock)
    /\ size' = batchSize
    /\ idx' = 0
    /\ base' = db[tableName]
    /\ config' = [tableName |-> Name(tableName)]
    /\ IF Len(data') = 0
       THEN /\ pc' = "done"
            /\ outcome' = Returned("bulkInsertInBatches")
            /\ calls' = <<>>
            /\ UNCHANGED <<inflight, settled>>
       ELSE IF batchSize <= 0
       THEN /\ pc' = "done"
            /\ outcome' = Threw("bulkInsertInBatches", ErrBatchSize)
            /\ calls' = <<>>
            /\ UNCHANGED <<inflight, settled>>
       ELSE /\ Issue(<<>>, BulkInsert(tableName, Batches(data', batchSize)[1]))
            /\ pc' = "bulkInsertInBatches"
            /\ outcome' = Running("bulkInsertInBatches")
    /\ UNCHANGED <<lib, discovered, seed, models, file, clock, cache, db, processed, filtering>>

\* after an awaited bulkInsert: the catch rethrows, or the loop over batches goes on
BulkInsertInBatchesResume ==
    /\ pc = "bulkInsertInBatches"
    /\ Awaited
    /\ IF Rejected
       THEN /\ pc' = "done"
            /\ outcome' = Threw("bulkInsertInBatches", ErrDatabase)
            /\ UNCHANGED <<idx, calls, inflight, settled>>
       ELSE /\ idx' = idx + 1
            /\ IF idx' < Len(Batches(data, size))
               THEN /\ Issue(calls, BulkInsert(config.tableName.name,
                                               Batches(data, size)[idx' + 1]))
                    /\ UNCHANGED <<pc, outcome>>
               ELSE /\ pc' = "done"
                    /\ outcome' = Returned("bulkInsertInBatches")
                    /\ UNCHANGED <<calls, inflight, settled>>
    /\ UNCHANGED <<lib, discovered, seed, models, file, clock, cache, db, config, data, size, base,
                   processed, filtering>>

(***************************************************************************)
(* removeData                                                              *)
(***************************************************************************)
\* the fallback: await this.queryInterface.bulkDelete(config.tableName, null, {})
IssueFallback(log, cfg) ==
    /\ Issue(log, BulkDelete(cfg.tableName.name, Null))
    /\ pc' = "removeData:all"

\* up to `await this._loadDataFile(...)`, or to the awaited fallback delete
RemoveData ==
    /\ pc = "idle"
    /\ config' = SeedConfig
    /\ cache' = SeedCache
    /\ discovered' = SeedDiscovers
    /\ outcome' = Running("removeData")
    /\ base' = db[config'.tableName.name]
    /\ IF HasUniqueFields(config')
       THEN /\ pc' = "removeData:load"
            /\ calls' = <<>>
            /\ UNCHANGED <<inflight, settled>>
       ELSE IssueFallback(<<>>, config')
    /\ UNCHANGED <<lib, seed, models, file, clock, db, data, idx, size,
                   processed, filtering>>

\* does the inner try of removeData reach the targeted bulkDelete
Targeted ==
    /\ loadDataFileError = "none"
    /\ IsArray
    /\ Len(file.items) > 0
    /\ ~FieldValuesThrow(file.items)
    /\ Conditions(file.items, config.uniqueFields.a) # <<>>

\* from the file read to the awaited targeted delete, or to the awaited fallback
RemoveDataLoaded ==
    /\ pc = "removeData:load"
    /\ IF Targeted
       THEN /\ Issue(calls, BulkDelete(config.tableName.name,
                                       WhereOr(Conditions(file.items,
                                                          config.uniqueFields.a))))
            /\ pc' = "removeData:targeted"
       ELSE IssueFallback(calls, config)
    /\ UNCHANGED <<lib, discovered, seed, models, file, clock, cache, db, config, data, idx, size,
                   base, processed, filtering, outcome>>

\* after the awaited targeted delete: return, or the inner catch swallows the
\* rejection and the method falls through to the fallback
RemoveDataTargetedResume ==
    /\ pc = "removeData:targeted"
    /\ Awaited
    /\ IF Rejected
       THEN /\ IssueFallback(calls, config)
            /\ UNCHANGED outcome
       ELSE /\ pc' = "done"
            /\ outcome' = Returned("removeData")
            /\ UNCHANGED <<calls, inflight, settled>>
    /\ UNCHANGED <<lib, discovered, seed, models, file, clock, cache, db, config, data, idx, size,
                   base, processed, filtering>>

\* after the awaited fallback delete: return, or the outer catch rethrows
RemoveDataAllResume ==
    /\ pc = "removeData:all"
    /\ Awaited
    /\ pc' = "done"
    /\ outcome' = IF Rejected THEN Threw("removeData", ErrDatabase)
                  ELSE Returned("removeData")
    /\ UNCHANGED <<lib, discovered, seed, models, file, clock, cache, db, config, data, idx, size,
                   base, calls, inflight, settled, processed, filtering>>

(***************************************************************************)
(* The runs: a seeder file (entity, custom config), a models directory and *)
(* a data file, then any sequence of invocations on one factory.           *)
(***************************************************************************)
RECURSIVE SeqsUpTo(_, _)
SeqsUpTo(S, n) ==
    IF n = 0 THEN {<<>>}
    ELSE SeqsUpTo(S, n - 1) \cup
         {Append(q, x) : q \in {p \in SeqsUpTo(S, n - 1) : Len(p) = n - 1}, x \in S}

Plain == Obj([email |-> Str(<<"a">>), name |-> Str(<<"n">>)])

\* records with untrimmed, blank, null and absent fields
Records ==
    {Plain,
     Obj([email |-> Str(<<" ", "a">>)]),
     Obj([email |-> Null, name |-> Str(<<" ">>)])}

\* an array element that is no record: null, a JSON array
Items == Records \cup {Null, Arr(<<>>)}

PlainFiles == {ArrayOf(q) : q \in SeqsUpTo({Plain}, MaxLen)}

\* the files that do not load, and the arrays of at most two elements
ShortFiles == {Missing, BadJson, NotArray} \cup {ArrayOf(q) : q \in SeqsUpTo(Items, 2)}

Files == ShortFiles \cup {ArrayOf(q) : q \in SeqsUpTo(Records, MaxLen)}

\* CUSTOM_CONFIG: the overrides of one key, or none
Override(key, values) == {EmptyObject} \cup {[k \in {key} |-> v] : v \in values}

BatchSizeOverrides == Override("batchSize", {Num(0 - 1), Num(0), Num(1), Num(2)})
UniqueFieldsOverrides ==
    Override("uniqueFields", {Arr(<<>>), Arr(<<"email", "name">>)})
ValidFieldsOverrides == Override("validFields", {Arr(<<>>)})

NoModels == [e \in EntityTypes |-> NoModel]
ModelDirs ==
    {NoModels,
     [e \in EntityTypes |-> ModelFile(NoMatch, <<"id", "email", "createdAt">>)]}

Idle ==
    /\ pc = "idle"
    /\ config = EmptyObject
    /\ data = <<>>
    /\ idx = 0
    /\ size = 0
    /\ base = <<>>
    /\ calls = <<>>
    /\ inflight = {}
    /\ settled = "none"
    /\ outcome = NoOutcome
    /\ discovered = FALSE

\* no direct library call is made
NoCall ==
    /\ args = <<>>
    /\ result = <<>>
    /\ ops = <<>>

\* seeders that vary the batch size, over files of plain records, the clock running
InitBatching ==
    /\ seed \in [entityType : {"Users"}, customConfig : BatchSizeOverrides]
    /\ models = NoModels
    /\ file \in PlainFiles
    /\ clock = 0
    /\ db = [t \in TableNames |-> <<>>]

\* a row the tables hold before any seeder runs
Old == [name |-> Str(<<"n">>)]

\* seeders that vary the unique fields, over every file, on tables that hold a row
InitRemoval ==
    /\ seed \in [entityType : {"Users"}, customConfig : UniqueFieldsOverrides]
                \cup [entityType : {"Products"}, customConfig : {EmptyObject}]
    /\ models = NoModels
    /\ file \in Files
    /\ clock = MaxClock
    /\ db = [t \in TableNames |-> <<Old>>]

\* seeders that vary the valid fields and the model file, over the short files
InitFiltering ==
    /\ seed \in [entityType : {"Users"}, customConfig : ValidFieldsOverrides]
    /\ models \in ModelDirs
    /\ file \in ShortFiles
    /\ clock = MaxClock
    /\ db = [t \in TableNames |-> <<>>]

Init ==
    /\ InitBatching \/ InitRemoval \/ InitFiltering
    /\ cache = <<>>
    /\ processed = <<>>
    /\ filtering = TRUE
    /\ Idle
    /\ NoCall

\* the caller takes the result of the invocation; its locals are gone
Continue ==
    /\ pc = "done"
    /\ pc' = "idle"
    /\ config' = EmptyObject
    /\ data' = <<>>
    /\ idx' = 0
    /\ size' = 0
    /\ base' = <<>>
    /\ calls' = <<>>
    /\ inflight' = {}
    /\ settled' = "none"
    /\ outcome' = NoOutcome
    /\ discovered' = FALSE
    /\ UNCHANGED <<lib, seed, models, file, clock, cache, db, processed, filtering>>

Next ==
    \/ \E f \in BOOLEAN : ProcessData(f)
    \/ ProcessDataLoaded
    \/ InsertData
    \/ InsertDataResume
    \/ \E b \in BatchSizeArgs : BulkInsertInBatches(SeedConfig.tableName.name, b)
    \/ BulkInsertInBatchesResume
    \/ RemoveData
    \/ RemoveDataLoaded
    \/ RemoveDataTargetedResume
    \/ RemoveDataAllResume
    \/ DbResolve
    \/ DbReject
    \/ Continue

Spec == Init /\ [][Next]_vars

\* The seeders that vary the batch size, run to the end: the event loop resumes a
\* method whose awaited call has settled, and the database settles every call it
\* is given.
FairInit ==
    /\ seed \in [entityType : {"Users"}, customConfig : BatchSizeOverrides]
    /\ models = NoModels
    /\ file \in PlainFiles
    /\ clock = MaxClock
    /\ db = [t \in TableNames |-> <<>>]
    /\ cache = <<>>
    /\ processed = <<>>
    /\ filtering = TRUE
    /\ Idle
    /\ NoCall

FairSpec ==
    /\ FairInit
    /\ [][Next]_vars
    /\ WF_vars(InsertDataResume)
    /\ WF_vars(DbResolve \/ DbReject)

(***************************************************************************)
(* Concurrent operations: invocations of processData, insertData and       *)
(* removeData started on one factory before the earlier ones have ended.   *)
(* They share the SeederConfig and its cache.  Each runs from its call to  *)
(* its first await in one step (getEntityConfig is synchronous), and from  *)
(* there on works with the `config` local it holds.                        *)
(***************************************************************************)
Methods == {"processData", "insertData", "removeData"}

\* the custom configs the callers pass: none, a key left undefined, an empty list
CustomConfigs ==
    Override("uniqueFields", {Undefined, Arr(<<>>)}) \cup Override("batchSize", {Undefined})

Requests ==
    [method : Methods, entityType : {"Users", "Users_{}"}, customConfig : CustomConfigs]

NoOp == [pc |-> "idle"]

ConcInit ==
    /\ ops = [o \in 1..MaxOps |-> NoOp]
    /\ seed = [entityType |-> "Users", customConfig |-> EmptyObject]
    /\ models = NoModels
    /\ file = Missing
    /\ clock = 0
    /\ cache = <<>>
    /\ db = [t \in TableNames |-> <<>>]
    /\ processed = <<>>
    /\ filtering = TRUE
    /\ Idle
    /\ args = <<>>
    /\ result = <<>>

\* the call of a method, up to its first await: `const config = getEntityConfig(...)`
Begin(o, req) ==
    /\ ops[o].pc = "idle"
    /\ ops' = [ops EXCEPT ![o] =
                [pc |-> "awaiting",
                 method |-> req.method,
                 entityType |-> req.entityType,
                 customConfig |-> req.customConfig,
                 config |-> getEntityConfig(req.entityType, req.customConfig)]]
    /\ cache' = CacheAfter(req.entityType, req.customConfig)
    /\ UNCHANGED <<args, result, seed, models, file, clock, db, pc, config, data, idx, size,
                   base, calls, inflight, settled, processed, filtering, outcome, discovered>>

\* what the rest of a method takes from its `config`: processData the data file and
\* the field filter, insertData the table and the batch size, removeData the table
\* and the choice between the targeted and the unconditional delete
Uses(method, cfg) ==
    CASE method = "processData" ->
            [dataFile |-> cfg.dataFile.name, filters |-> Truthy(cfg.validFields)]
      [] method = "insertData" ->
            [tableName |-> cfg.tableName.name, batchSize |-> InsertBatchSize(cfg)]
      [] method = "removeData" ->
            [tableName |-> cfg.tableName.name, targeted |-> HasUniqueFields(cfg)]

\* the continuation of a method after its await
Resume(o) ==
    /\ ops[o].pc = "awaiting"
    /\ ops' = [ops EXCEPT ![o] =
                [pc |-> "done",
                 method |-> ops[o].method,
                 entityType |-> ops[o].entityType,
                 customConfig |-> ops[o].customConfig,
                 config |-> ops[o].config,
                 uses |-> Uses(ops[o].method, ops[o].config)]]
    /\ UNCHANGED <<args, result, seed, models, file, clock, cache, db, pc, config, data, idx,
                   size, base, calls, inflight, settled, processed, filtering, outcome,
                   discovered>>

ConcNext ==
    \E o \in 1..MaxOps :
        \/ \E req \in Requests : Begin(o, req)
        \/ Resume(o)

ConcSpec == ConcInit /\ [][ConcNext]_vars

(***************************************************************************)
(* Direct calls of the library: one call of DataProcessor.processGeneric   *)
(* (and a second one on what the first returned), of                       *)
(* SeederValidator.validateUniqueness or of SeederValidator.validateSchema *)
(* on inputs drawn from the sets below.                                    *)
(***************************************************************************)
\* the functions from a subset of K to V: the objects with keys in K
PartialFns(K, V) == UNION {[S -> V] : S \in SUBSET K}

\* an object value with an identity: two object literals are never the same value
ObjRef(r) == [t |-> "object", f |-> EmptyObject, ref |-> r]

\* raw field values: null, undefined, strings blank and padded, numbers, booleans,
\* a date, arrays, nested objects, a value of no listed type
RawValues ==
    {Null, Undefined,
     Str(<<>>), Str(<<" ">>), Str(<<" ", "a">>), Str(<<"a", " ">>), Str(<<"a">>),
     Num(0), Num(1), Bool(TRUE), Bool(FALSE), DateOf(0),
     Arr(<<>>), Arr(<<Str(<<" ">>), Null>>),
     Obj(EmptyObject), Obj([email |-> Str(<<" ", "a">>)]),
     BigInt(1)}

RawRecords == {Obj(f) : f \in PartialFns({"email", "name"}, RawValues)}

\* inputs that are no field-name-to-value mapping
NonMappings ==
    {Null, Undefined, Str(<<>>), Str(<<"a">>), Num(0), Num(1), Bool(TRUE), Bool(FALSE),
     Arr(<<>>), Arr(<<Str(<<" ", "a">>), Null>>)}

ProcessGenericCalls ==
    {[fn |-> "processGeneric", item |-> i] : i \in RawRecords \cup NonMappings}

\* records for validateUniqueness: the email absent, empty, repeated, an object
UniqueItems ==
    {Obj(f) : f \in PartialFns({"email"},
                    {Null, Str(<<>>), Str(<<"a">>), Str(<<"b">>), Num(0),
                     ObjRef(1), ObjRef(2)})}
        \cup {Obj([email |-> Str(<<"a">>), name |-> Str(<<"n">>)]),
              Obj([name |-> Str(<<"n">>)]),
              Null}

ValidateUniquenessCalls ==
    {[fn |-> "validateUniqueness", data |-> Arr(q), uniqueFields |-> u] :
        q \in SeqsUpTo(UniqueItems, MaxLen),
        u \in {<<>>, <<"email">>, <<"name", "email">>}}

\* the rules of a field schema
Requireds == {EmptyObject, [required |-> Bool(TRUE)]}
Types ==
    {EmptyObject} \cup
    {[type |-> Name(x)] : x \in {"string", "number", "boolean", "email", "array", "uuid"}}
Constraints ==
    {EmptyObject,
     [minLength |-> Num(2), maxLength |-> Num(3)],
     [minLength |-> Num(0)],
     [maxLength |-> Num(0)],
     [min |-> Num(0), max |-> Num(1)],
     [min |-> Num(1)],
     [max |-> Num(0)],
     [enum |-> Arr(<<Str(<<"a">>), Num(1)>>)],
     [pattern |-> Name("^a")],
     [minLength |-> Num(2), max |-> Num(0), enum |-> Arr(<<Num(2)>>),
      pattern |-> Name("^a")]}

FieldSchemas ==
    {Merge(Merge(r, t), c) : r \in Requireds, t \in Types, c \in Constraints}

Schemas ==
    {<<[name |-> "email", rules |-> fs]>> : fs \in FieldSchemas}
        \cup {<<[name |-> "email", rules |-> [required |-> Bool(TRUE), type |-> Name("email")]],
                [name |-> "name", rules |-> [required |-> Bool(TRUE), type |-> Name("string"),
                                             minLength |-> Num(2)]]>>}

\* items for validateSchema: the email absent, empty, of every type; a field the
\* schema lacks; no object at all
SchemaItems ==
    {Null, Num(1), Obj([email |-> Str(<<"a">>), extra |-> Num(1)])} \cup
    {Obj(f) : f \in PartialFns({"email"},
                    {Null, Str(<<>>), Str(<<"a">>), Str(<<"a", "b", "c", "d">>),
                     Str(<<"a", "@", "b", ".", "c">>), Num(0), Num(1), Num(2),
                     Bool(TRUE), Arr(<<>>)})}

\* the arrays of one item, and the longer arrays over three of the items
SchemaLists ==
    {<<i>> : i \in SchemaItems}
        \cup SeqsUpTo({Null, Obj([email |-> Null]), Obj([email |-> Num(1)])}, MaxData)

ValidateSchemaCalls ==
    {[fn |-> "validateSchema", data |-> Arr(q), schema |-> sc] :
        q \in SchemaLists, sc \in Schemas}

\* validation results: valid and not, with and without warnings, with isValid at
\* odds with the errors, without the lists
ValidationResults ==
    {[isValid |-> TRUE, errors |-> <<>>, warnings |-> <<>>],
     [isValid |-> TRUE, errors |-> <<>>, warnings |-> <<"w1">>],
     [isValid |-> FALSE, errors |-> <<"e1">>, warnings |-> <<>>],
     [isValid |-> FALSE, errors |-> <<"e2", "e3">>, warnings |-> <<"w2">>],
     [isValid |-> TRUE, errors |-> <<"e1">>, warnings |-> <<>>],
     [isValid |-> FALSE, errors |-> <<>>, warnings |-> <<>>],
     [isValid |-> TRUE],
     [isValid |-> FALSE, errors |-> <<"e1">>]}

GenerateValidationReportCalls ==
    {[fn |-> "generateValidationReport", validationResults |-> q] :
        q \in SeqsUpTo(ValidationResults, MaxLen)}

\* no seeder runs while the library is called directly
LibInit ==
    /\ args \in ProcessGenericCalls \cup ValidateUniquenessCalls \cup ValidateSchemaCalls
                \cup GenerateValidationReportCalls
    /\ result = <<>>
    /\ ops = <<>>
    /\ seed = [entityType |-> "Users", customConfig |-> EmptyObject]
    /\ models = NoModels
    /\ file = Missing
    /\ clock = 0
    /\ cache = <<>>
    /\ db = [t \in TableNames |-> <<>>]
    /\ processed = <<>>
    /\ filtering = TRUE
    /\ Idle

\* DataProcessor.processGeneric(item)
CallProcessGeneric ==
    /\ args.fn = "processGeneric"
    /\ result = <<>>
    /\ result' = <<Normalize(args.item)>>
    /\ UNCHANGED <<args, ops, seed, models, file, clock, cache, db, pc, config, data, idx,
                   size, base, calls, inflight, settled, processed, filtering, outcome,
                   discovered>>

\* DataProcessor.processGeneric(normalized), on the record the first call returned
CallProcessGenericAgain ==
    /\ args.fn = "processGeneric"
    /\ Len(result) = 1
    /\ result[1].status = "returned"
    /\ result' = Append(result, Normalize(result[1].value))
    /\ UNCHANGED <<args, ops, seed, models, file, clock, cache, db, pc, config, data, idx,
                   size, base, calls, inflight, settled, processed, filtering, outcome,
                   discovered>>

\* SeederValidator.validateUniqueness(data, uniqueFields)
CallValidateUniqueness ==
    /\ args.fn = "validateUniqueness"
    /\ result = <<>>
    /\ result' = IF validateUniquenessThrows(args.data, args.uniqueFields)
                 THEN <<[status |-> "threw", error |-> "TypeError"]>>
                 ELSE <<[status |-> "returned",
                         value |-> validateUniqueness(args.data, args.uniqueFields)]>>
    /\ UNCHANGED <<args, ops, seed, models, file, clock, cache, db, pc, config, data, idx,
                   size, base, calls, inflight, settled, processed, filtering, outcome,
                   discovered>>

\* SeederValidator.validateSchema(data, schema)
CallValidateSchema ==
    /\ args.fn = "validateSchema"
    /\ result = <<>>
    /\ result' = <<[status |-> "returned",
                    value |-> validateSchema(args.data, args.schema)]>>
    /\ UNCHANGED <<args, ops, seed, models, file, clock, cache, db, pc, config, data, idx,
                   size, base, calls, inflight, settled, processed, filtering, outcome,
                   discovered>>

\* SeederValidator.generateValidationReport(validationResults)
CallGenerateValidationReport ==
    /\ args.fn = "generateValidationReport"
    /\ result = <<>>
    /\ result' = <<[status |-> "returned",
                    value |-> generateValidationReport(args.validationResults)]>>
    /\ UNCHANGED <<args, ops, seed, models, file, clock, cache, db, pc, config, data, idx,
                   size, base, calls, inflight, settled, processed, filtering, outcome,
                   discovered>>

LibNext ==
    \/ CallGenerateValidationReport
    \/ CallProcessGeneric
    \/ CallProcessGenericAgain
    \/ CallValidateUniqueness
    \/ CallValidateSchema

LibSpec == LibInit /\ [][LibNext]_vars

(***************************************************************************)
(* Properties.                                                             *)
(***************************************************************************)
Inserting == outcome.method \in {"insertData", "bulkInsertInBatches"}
Table == config.tableName.name
BatchRows == [k \in 1..Len(calls) |-> calls[k].rows]
CeilDiv(n, b) == (n + b - 1) \div b
AllBulkInsert == \A k \in 1..Len(calls) : calls[k].op = "bulkInsert" /\ calls[k].table = Table

\* C1: an insertData or bulkInsertInBatches call with a positive batch size B that
\* met no database failure has issued exactly ceil(N/B) bulk-inserts, every batch
\* but the last holds exactly B records, and the batches concatenated in the order
\* issued are the timestamped record list.
C1_Batching ==
    (pc = "done" /\ Inserting /\ outcome.status = "returned" /\ size > 0) =>
        /\ AllBulkInsert
        /\ Len(calls) = CeilDiv(Len(data), size)
        /\ \A k \in 1..(Len(calls) - 1) : Len(calls[k].rows) = size
        /\ Len(calls) > 0 =>
            /\ Len(calls[Len(calls)].rows) >= 1
            /\ Len(calls[Len(calls)].rows) <= size
        /\ Flatten(BatchRows) = data

\* three records in batches of two: a full batch, then a short one
C1_Witness ==
    /\ pc = "done" /\ outcome = Returned("insertData")
    /\ size = 2 /\ Len(data) = 3 /\ Len(calls) = 2
    /\ Len(calls[1].rows) = 2 /\ Len(calls[2].rows) = 1

\* C2: within one insert at most one database call is in flight, the call in
\* flight is the last one started (every earlier batch has completed), and the
\* batches are started in index order.
C2_Sequential ==
    Inserting =>
        /\ Cardinality(inflight) <= 1
        /\ Len(calls) < MaxCalls => \A c \in inflight : c.id = Len(calls) - 1
        /\ size > 0 =>
            \A k \in 1..Len(calls) :
                calls[k].rows = SubSeq(data, (k - 1) * size + 1, Min(k * size, Len(data)))

\* the second batch is in flight after the first completed
C2_Witness ==
    /\ pc = "insertData" /\ size = 1 /\ Len(data) = 3
    /\ Len(calls) = 2 /\ Cardinality(inflight) = 1
    /\ Len(db[Table]) = Len(base) + 1

\* C3: when the bulk-insert of batch k is rejected, the next step of the insert
\* throws to the caller, issues no further call (no later batch, no re-issue, no
\* delete), and the table holds what it held before plus batches 1..k-1.
C3_AbortOnFailure ==
    [][(pc \in {"insertData", "bulkInsertInBatches"} /\ Awaited /\ Rejected
            /\ Len(calls) < MaxCalls) =>
        /\ pc' = "done"
        /\ outcome' = Threw(outcome.method, ErrDatabase)
        /\ calls' = calls
        /\ inflight' = {}
        /\ AllBulkInsert
        /\ db' = [db EXCEPT ![Table] =
                    base \o Flatten(SubSeq(BatchRows, 1, Len(calls) - 1))]
        /\ db' = db]_vars

\* the second of three batches failed: one batch of rows stays, two calls issued
C3_Witness ==
    /\ pc = "done" /\ outcome = Threw("insertData", ErrDatabase)
    /\ size = 1 /\ Len(data) = 3 /\ Len(calls) = 2
    /\ db[Table] = base \o calls[1].rows

\* what the data file holds, read off the file and not off the code
IsRecord(item) == item.t = "object"
NonEmptyArray == file.kind = "array" /\ Len(file.items) > 0
ArrayOfRecords == NonEmptyArray /\ \A k \in 1..Len(file.items) : IsRecord(file.items[k])

\* the non-null values the file holds for a field
NonNullValues(field) ==
    {file.items[k].f[field] :
        k \in {j \in 1..Len(file.items) :
                /\ IsRecord(file.items[j])
                /\ field \in DOMAIN file.items[j].f
                /\ file.items[j].f[field] # Null}}

PastLoad == pc \in {"removeData:targeted", "removeData:all", "done"}
Removing == outcome.method = "removeData"
IsTargeted(call) == call.op = "bulkDelete" /\ call.where.t = "or"
IsUnconditional(call) == call.op = "bulkDelete" /\ call.where = Null

\* C4: a bulk-delete of removeData that the database rejects makes removeData
\* throw to its caller without issuing another database call.
C4_DeleteFailurePropagates ==
    [][(Removing /\ pc \in {"removeData:targeted", "removeData:all"}
            /\ Awaited /\ Rejected) =>
        /\ pc' = "done"
        /\ outcome' = Threw("removeData", ErrDatabase)
        /\ calls' = calls]_vars

\* C5: with unique fields and a data file that loads as a non-empty array holding
\* a non-null value for some unique field, removeData issues one targeted
\* bulk-delete on config.tableName: the OR, over exactly the unique fields with a
\* non-null value in the file, of field IN (the non-null values of that field).
C5_TargetedDelete ==
    (Removing /\ PastLoad /\ HasUniqueFields(config) /\ NonEmptyArray
        /\ \E k \in 1..Len(config.uniqueFields.a) :
                NonNullValues(config.uniqueFields.a[k]) # {}) =>
        /\ Len(calls) >= 1
        /\ calls[1].table = Table
        /\ IsTargeted(calls[1])
        /\ Cardinality({k \in 1..Len(calls) : IsTargeted(calls[k])}) = 1
        /\ [k \in 1..Len(calls[1].where.conditions) |-> calls[1].where.conditions[k].field]
            = SelectSeq(config.uniqueFields.a, LAMBDA f : NonNullValues(f) # {})
        /\ \A k \in 1..Len(calls[1].where.conditions) :
            Range(calls[1].where.conditions[k].in)
                = NonNullValues(calls[1].where.conditions[k].field)

\* C6: removeData issues the unconditional bulk-delete exactly when uniqueFields
\* is empty or absent, the data file cannot be loaded or parsed, the loaded value
\* is no non-empty array, or no unique field has a non-null value in the file.
C6_FallbackCases ==
    (Removing /\ PastLoad) =>
        ((\E k \in 1..Len(calls) : calls[k].table = Table /\ IsUnconditional(calls[k]))
            <=> \/ ~HasUniqueFields(config)
                \/ file.kind \in {"missing", "invalid"}
                \/ ~NonEmptyArray
                \/ \A k \in 1..Len(config.uniqueFields.a) :
                        NonNullValues(config.uniqueFields.a[k]) = {})

\* the rows a returned insertData added to its table
Added == SubSeq(db[Table], Len(base) + 1, Len(db[Table]))
Stamps == {"createdAt", "updatedAt"}
Blank(value) == value.t = "string" /\ Trim(value.s) = <<>>
Trimmed(value) == IF value.t = "string" THEN Str(Trim(value.s)) ELSE value

\* processData returned the records of a non-empty array of flat objects and
\* insertData, handed those records, returned
Applied ==
    /\ pc = "done" /\ outcome = Returned("insertData")
    /\ ArrayOfRecords
    /\ processed # <<>>

\* the i-th row carries values of the i-th record of the file, and both stamps
RowOfRecord(i) ==
    /\ Stamps \subseteq DOMAIN Added[i]
    /\ \A f \in DOMAIN Added[i] \ Stamps :
        /\ f \in DOMAIN file.items[i].f
        /\ Added[i][f] = Trimmed(file.items[i].f[f])

RowCount ==
    /\ db[Table] = base \o Added
    /\ Len(Added) = Len(file.items)

FilteredRows ==
    (filtering /\ config.validFields.a # <<>>) =>
        \A i \in 1..Len(Added) :
            DOMAIN Added[i] \ Stamps \subseteq Range(config.validFields.a)

\* C7 as stated: processData then insertData adds one row per record of the
\* file, in input order; a row holds only fields of validFields when filtering
\* is enabled and validFields is non-empty, and every field of its record whose
\* value is non-null when filtering is disabled.
C7_RowsAsStated ==
    Applied =>
        /\ RowCount
        /\ \A i \in 1..Len(Added) : RowOfRecord(i)
        /\ FilteredRows
        /\ ~filtering =>
            \A i \in 1..Len(Added) :
                \A f \in DOMAIN file.items[i].f :
                    file.items[i].f[f] # Null => f \in DOMAIN Added[i]

\* C7 (amended): as C7, but with filtering disabled a row holds exactly the
\* fields of its record whose value is neither null nor a string that is empty
\* after trimming, strings trimmed.
C7_Rows ==
    Applied =>
        /\ RowCount
        /\ \A i \in 1..Len(Added) : RowOfRecord(i)
        /\ FilteredRows
        /\ ~filtering =>
            \A i \in 1..Len(Added) :
                DOMAIN Added[i] \ Stamps =
                    {f \in DOMAIN file.items[i].f :
                        file.items[i].f[f] # Null /\ ~Blank(file.items[i].f[f])}

\* unfiltered rows of a file with a blank string and an untrimmed one: the blank
\* field is gone from its row and the other string is stored trimmed
C7_Witness ==
    /\ Applied
    /\ ~filtering
    /\ Len(Added) = 2
    /\ \E i \in 1..2 :
        /\ "name" \in DOMAIN file.items[i].f
        /\ Blank(file.items[i].f["name"])
        /\ "name" \notin DOMAIN Added[i]
    /\ \E i \in 1..2 :
        /\ "email" \in DOMAIN Added[i]
        /\ Added[i]["email"] # file.items[i].f["email"]

\* C8: with validFields empty, processData filters nothing even when
\* filterValidFields is true: each record returned is the normalized record.
C8_EmptyValidFieldsKeepAll ==
    (pc = "done" /\ outcome = Returned("processData") /\ filtering
        /\ config.validFields = Arr(<<>>)) =>
        \A k \in 1..Len(processed) : processed[k] = processGeneric(file.items[k])

\* C9: all records one insertData call passes to the database carry one and the
\* same instant in createdAt and updatedAt.
C9_OneInstant ==
    outcome.method = "insertData" =>
        \A j, k \in 1..Len(calls) :
            \A m \in 1..Len(calls[j].rows) : \A n \in 1..Len(calls[k].rows) :
                /\ calls[j].rows[m]["createdAt"] = calls[j].rows[m]["updatedAt"]
                /\ calls[j].rows[m]["createdAt"] = calls[k].rows[n]["createdAt"]

\* C10: an insert given a batch size that is zero or negative throws the
\* batch-size error before any database call, whatever the record list.
C10_BatchSizeChecked ==
    /\ (outcome.method = "insertData" /\ config.batchSize.n <= 0) =>
        /\ pc = "done"
        /\ outcome = Threw("insertData", ErrBatchSize)
        /\ calls = <<>>
    /\ (outcome.method = "bulkInsertInBatches" /\ size <= 0) =>
        /\ pc = "done"
        /\ outcome = Threw("bulkInsertInBatches", ErrBatchSize)
        /\ calls = <<>>

\* C11: processData throws the file-not-found error on an absent data file, the
\* invalid-JSON error on text that does not parse and the not-an-array error on
\* a parsed value that is no array; it then returns no records, and processData
\* never issues a database call.
C11_LoadErrors ==
    /\ outcome.method = "processData" => (calls = <<>> /\ inflight = {})
    /\ (pc = "done" /\ outcome.method = "processData") =>
        /\ file.kind = "missing" => outcome = Threw("processData", ErrNotFound)
        /\ file.kind = "invalid" => outcome = Threw("processData", ErrInvalidJson)
        /\ file.kind = "value" => outcome = Threw("processData", ErrNotArray)
        /\ file.kind # "array" => processed = <<>>

\* processData ended on text that does not parse
C11_Witness ==
    /\ pc = "done"
    /\ file.kind = "invalid"
    /\ outcome = Threw("processData", ErrInvalidJson)

\* C12: once the factory has resolved the configuration of an entity type and
\* override payload, every later processData, insertData or removeData call with
\* that entity type and payload gets the configuration the cache holds (the one
\* resolved first, cache entries never change) without running the discovery.
C12_CachedResolution ==
    [][/\ \A k \in DOMAIN cache : k \in DOMAIN cache' /\ cache'[k] = cache[k]
       /\ (pc = "idle" /\ outcome'.method \in {"processData", "insertData", "removeData"}
                /\ CacheKey(seed.entityType, seed.customConfig) \in DOMAIN cache) =>
            /\ config' = cache[CacheKey(seed.entityType, seed.customConfig)]
            /\ ~discovered'
            /\ cache' = cache]_vars

\* a removeData resolved its configuration from the cache an earlier call filled
C12_Witness ==
    /\ pc = "removeData:load"
    /\ ~discovered
    /\ config = cache[CacheKey(seed.entityType, seed.customConfig)]

\* a row without its timestamps
Unstamp(row) == [k \in DOMAIN row \ Stamps |-> row[k]]

\* the table ends with the rows an apply of the processed records leaves
AlreadyApplied ==
    /\ processed # <<>>
    /\ Len(base) >= Len(processed)
    /\ \A i \in 1..Len(processed) :
        Unstamp(base[Len(base) - Len(processed) + i]) = processed[i]

\* C13: apply and rollback are idempotent: an apply on a table that already ends
\* with the rows of an apply of the same records, and a rollback on a table its
\* delete leaves as it is, both leave the table as they found it.
C13_Idempotent ==
    /\ (pc = "done" /\ outcome = Returned("insertData") /\ AlreadyApplied) =>
        db[Table] = base
    /\ (pc = "done" /\ outcome = Returned("removeData") /\ Len(calls) = 1
            /\ Apply(base, calls[1]) = base) =>
        db[Table] = base

\* C14: insertData behaves as bulkInsertInBatches does on the same stamped list
\* and the same batch size: on a non-empty list it throws the batch-size error
\* before any call when the size is zero or negative, and otherwise issues, in
\* order, the batches bulkInsertInBatches builds.
C14_SameSemantics ==
    (outcome.method = "insertData" /\ data # <<>>) =>
        IF config.batchSize.n <= 0
        THEN /\ pc = "done"
             /\ outcome = Threw("insertData", ErrBatchSize)
             /\ calls = <<>>
        ELSE /\ Len(calls) <= Len(Batches(data, config.batchSize.n))
             /\ \A k \in 1..Len(calls) :
                    calls[k] = BulkInsert(Table, Batches(data, config.batchSize.n)[k])

\* does the row hold, for some unique field, a value the file holds for that field
HasFileValue(row) ==
    \E k \in 1..Len(config.uniqueFields.a) :
        /\ config.uniqueFields.a[k] \in DOMAIN row
        /\ row[config.uniqueFields.a[k]] \in NonNullValues(config.uniqueFields.a[k])

FieldOf(item, fieldName) ==
    IF fieldName \in DOMAIN item.f THEN item.f[fieldName] ELSE Undefined

Normalizing == args.fn = "processGeneric" /\ result # <<>>

\* C16: normalizing a normalized record returns the same record.
C16_Idempotent ==
    (args.fn = "processGeneric" /\ Len(result) = 2) => result[2] = result[1]

\* a record with a padded string was normalized twice
C16_Witness ==
    /\ args.fn = "processGeneric" /\ Len(result) = 2
    /\ args.item.t = "object"
    /\ "email" \in DOMAIN args.item.f
    /\ args.item.f["email"] = Str(<<" ", "a">>)
    /\ result[1].value.f["email"] = Str(<<"a">>)

\* C17: the normalized record has a field exactly when its raw value is neither
\* null nor undefined nor a string that is empty after trimming; a string is kept
\* trimmed, and a number, boolean, date, array or nested object as it is.
C17_FieldWise ==
    (Normalizing /\ args.item.t = "object") =>
        /\ result[1].status = "returned"
        /\ DOMAIN result[1].value.f =
            {k \in DOMAIN args.item.f :
                args.item.f[k] \notin {Null, Undefined} /\ ~Blank(args.item.f[k])}
        /\ \A k \in DOMAIN result[1].value.f :
            /\ args.item.f[k].t = "string" =>
                result[1].value.f[k] = Str(Trim(args.item.f[k].s))
            /\ args.item.f[k].t \in {"number", "boolean", "date", "array", "object"} =>
                result[1].value.f[k] = args.item.f[k]

\* a blank string is dropped, a padded one trimmed
C17_Witness ==
    /\ Normalizing
    /\ args.item = Obj([email |-> Str(<<" ">>), name |-> Str(<<"a", " ">>)])
    /\ result[1].value = Obj([name |-> Str(<<"a">>)])

\* C18: normalize throws the invalid-item error on every input that is no mapping:
\* null, undefined, a string, a number, a boolean, a JSON array.
C18_RejectsNonMappings ==
    (Normalizing
        /\ args.item.t \in {"null", "undefined", "string", "number", "boolean", "array"}) =>
        result[1].status = "threw"

\* the positions (from 1) whose value for the field repeats an earlier one
Repeats(items, fieldName) ==
    {j \in 1..Len(items) :
        /\ FieldOf(items[j], fieldName) \notin {Null, Undefined, Str(<<>>)}
        /\ \E i \in 1..(j - 1) : FieldOf(items[i], fieldName) = FieldOf(items[j], fieldName)}

\* the first position holding the value position j holds
FirstHolding(items, fieldName, j) ==
    CHOOSE i \in 1..j :
        /\ FieldOf(items[i], fieldName) = FieldOf(items[j], fieldName)
        /\ \A h \in 1..(i - 1) : FieldOf(items[h], fieldName) # FieldOf(items[j], fieldName)

ValidatingRecords ==
    /\ args.fn = "validateUniqueness" /\ result # <<>>
    /\ \A k \in 1..Len(args.data.a) : IsRecord(args.data.a[k])

\* C19: validateUniqueness reports, for each unique field, one error for each
\* index whose non-empty value repeats that of an earlier record, citing the first
\* index holding the value and the repeating one, and nothing else; isValid is
\* true exactly when no value repeats.
C19_Uniqueness ==
    ValidatingRecords =>
        /\ result[1].status = "returned"
        /\ \A e \in Range(result[1].value.errors) : e.field \in Range(args.uniqueFields)
        /\ \A f \in Range(args.uniqueFields) :
            LET es == SelectSeq(result[1].value.errors, LAMBDA e : e.field = f)
            IN /\ Len(es) = Cardinality(Repeats(args.data.a, f))
               /\ {<<e.first, e.index>> : e \in Range(es)} =
                    {<<FirstHolding(args.data.a, f, j) - 1, j - 1>> :
                        j \in Repeats(args.data.a, f)}
        /\ result[1].value.isValid <=>
            \A f \in Range(args.uniqueFields) : Repeats(args.data.a, f) = {}

\* the values a, b, a give one error citing indices 0 and 2
C19_Witness ==
    /\ ValidatingRecords
    /\ args.uniqueFields = <<"email">>
    /\ args.data.a = <<Obj([email |-> Str(<<"a">>)]), Obj([email |-> Str(<<"b">>)]),
                       Obj([email |-> Str(<<"a">>)])>>
    /\ Len(result[1].value.errors) = 1
    /\ result[1].value.errors[1].first = 0
    /\ result[1].value.errors[1].index = 2
    /\ ~result[1].value.isValid

Required(rules) == "required" \in DOMAIN rules /\ rules["required"] = Bool(TRUE)

\* the value does not have the declared type
FailsType(value, type) ==
    CASE type = "string" -> value.t # "string"
      [] type = "number" -> value.t # "number"
      [] type = "boolean" -> value.t # "boolean"
      [] type = "array" -> value.t # "array"
      [] type = "email" -> value.t # "string" \/ ~emailRegex(value.s)
      [] OTHER -> TRUE

\* the errors validateSchema reported for one field of the record at one index
ErrorsAt(index, fieldName) ==
    SelectSeq(result[1].value.errors, LAMBDA e : e.index = index /\ e.field = fieldName)

\* C20: in validateSchema, for every record and declared field, a required field
\* that is null, undefined or "" gets the 'required' error and nothing else, a
\* non-required one gets no error, and a value failing its declared type gets
\* one type error and no length, range, enum or pattern error.
C20_RequiredAndType ==
    (args.fn = "validateSchema" /\ result # <<>>) =>
        \A k \in 1..Len(args.data.a) : \A e \in 1..Len(args.schema) :
            IsRecord(args.data.a[k]) =>
                LET value == FieldOf(args.data.a[k], args.schema[e].name)
                    rules == args.schema[e].rules
                    errs == ErrorsAt(k - 1, args.schema[e].name)
                IN /\ (Required(rules) /\ value \in {Null, Undefined, Str(<<>>)}) =>
                        (Len(errs) = 1 /\ errs[1].kind = "required")
                   /\ (~Required(rules) /\ value \in {Null, Undefined, Str(<<>>)}) =>
                        errs = <<>>
                   /\ (value \notin {Null, Undefined, Str(<<>>)} /\ "type" \in DOMAIN rules
                            /\ FailsType(value, rules["type"].name)) =>
                        (Len(errs) = 1 /\ errs[1].kind \in {"type", "unknownType"})

\* a number under a string type with range, enum and pattern rules: one type error
C20_Witness ==
    /\ args.fn = "validateSchema" /\ result # <<>>
    /\ args.data.a = <<Obj([email |-> Num(1)])>>
    /\ Len(args.schema) = 1
    /\ args.schema[1].rules = [type |-> Name("string"), minLength |-> Num(2),
                               max |-> Num(0), enum |-> Arr(<<Num(2)>>),
                               pattern |-> Name("^a")]
    /\ result[1].value.errors = <<SchemaError("type", 0, "email")>>

\* does the error list hold an error of this kind
Reports(errs, kind) == \E n \in 1..Len(errs) : errs[n].kind = kind

\* C21: in validateSchema, a string that passes the presence and type checks
\* gets a length error exactly when it is shorter than minLength or longer than
\* maxLength, and a number a range error exactly when it is below min or above
\* max, for every declared bound, a bound of 0 included.
C21_Bounds ==
    (args.fn = "validateSchema" /\ result # <<>>) =>
        \A k \in 1..Len(args.data.a) : \A e \in 1..Len(args.schema) :
            (/\ IsRecord(args.data.a[k])
             /\ FieldOf(args.data.a[k], args.schema[e].name) \notin {Null, Undefined, Str(<<>>)}
             /\ "type" \in DOMAIN args.schema[e].rules =>
                    ~FailsType(FieldOf(args.data.a[k], args.schema[e].name),
                               args.schema[e].rules["type"].name)) =>
                LET value == FieldOf(args.data.a[k], args.schema[e].name)
                    rules == args.schema[e].rules
                    errs == ErrorsAt(k - 1, args.schema[e].name)
                IN /\ (value.t = "string" /\ "minLength" \in DOMAIN rules) =>
                        (Reports(errs, "minLength") <=> Len(value.s) < rules["minLength"].n)
                   /\ (value.t = "string" /\ "maxLength" \in DOMAIN rules) =>
                        (Reports(errs, "maxLength") <=> Len(value.s) > rules["maxLength"].n)
                   /\ (value.t = "number" /\ "min" \in DOMAIN rules) =>
                        (Reports(errs, "min") <=> value.n < rules["min"].n)
                   /\ (value.t = "number" /\ "max" \in DOMAIN rules) =>
                        (Reports(errs, "max") <=> value.n > rules["max"].n)

Reporting == args.fn = "generateValidationReport" /\ result # <<>>

\* the errors (or warnings) of the inputs, input after input
Concatenated(results, key) ==
    Flatten([k \in 1..Len(results) |->
                IF key \in DOMAIN results[k] THEN results[k][key] ELSE <<>>])

\* C22: the report holds the errors and the warnings of its inputs concatenated
\* in order, totalValidations is the number of inputs, passedValidations counts
\* the inputs whose isValid is true, passed + failed = total, and the report is
\* valid exactly when the concatenated error list is empty.
C22_Report ==
    Reporting =>
        LET report == result[1].value
            inputs == args.validationResults
        IN /\ report.errors = Concatenated(inputs, "errors")
           /\ report.warnings = Concatenated(inputs, "warnings")
           /\ report.totalValidations = Len(inputs)
           /\ report.passedValidations =
                Cardinality({k \in 1..Len(inputs) : inputs[k].isValid})
           /\ report.passedValidations + report.failedValidations = report.totalValidations
           /\ report.isValid <=> Concatenated(inputs, "errors") = <<>>

\* three inputs, one of them valid though it carries an error: two passed, one
\* failed, three errors in input order, the report invalid
C22_Witness ==
    /\ Reporting
    /\ args.validationResults =
        <<[isValid |-> TRUE, errors |-> <<"e1">>, warnings |-> <<>>],
          [isValid |-> FALSE, errors |-> <<"e2", "e3">>, warnings |-> <<"w2">>],
          [isValid |-> TRUE, errors |-> <<>>, warnings |-> <<"w1">>]>>
    /\ result[1].value.errors = <<"e1", "e2", "e3">>
    /\ result[1].value.warnings = <<"w2", "w1">>
    /\ result[1].value.passedValidations = 2
    /\ result[1].value.failedValidations = 1
    /\ ~result[1].value.isValid

\* C24: a removeData that returns has issued exactly one bulk-delete, the targeted
\* one or the unconditional one.
C24_OneDelete ==
    (pc = "done" /\ outcome = Returned("removeData")) =>
        /\ Len(calls) = 1
        /\ IsTargeted(calls[1]) \/ IsUnconditional(calls[1])

\* the table held, when removeData started, just the rows of one apply of the
\* processed records on a table with no rows
FreshlyApplied ==
    /\ processed # <<>>
    /\ Len(base) = Len(processed)
    /\ \A i \in 1..Len(processed) : Unstamp(base[i]) = processed[i]

\* C25: on a table that holds just the rows of one apply, a removeData that
\* returns leaves the table with no rows.
C25_RoundTrip ==
    (pc = "done" /\ outcome = Returned("removeData") /\ FreshlyApplied) =>
        db[Table] = <<>>

(***************************************************************************)
(* C26: insertData terminates for every record list and every integer      *)
(* batch size, zero and negative ones included, provided the database      *)
(* settles every bulk insert: an insertData that is suspended on a bulk    *)
(* insert eventually returns or throws.                                    *)
(***************************************************************************)
C26_Terminates == (pc = "insertData") ~> (pc = "done")

(***************************************************************************)
(* C23: when processData, insertData and removeData interleave at their    *)
(* awaits, the lookup, computation and store of a cache entry happen in    *)
(* one step (an operation past its call finds its entry stored and holds   *)
(* that very entry), every operation works with the configuration of its   *)
(* own (entity type, overrides) pair, and every cache entry is a complete  *)
(* configuration.                                                          *)
(***************************************************************************)
Started == {o \in DOMAIN ops : ops[o].pc # "idle"}

KeyOf(op) == CacheKey(op.entityType, op.customConfig)

\* the auto-discovered defaults of the operation's entity, overlaid with its overrides
OwnConfig(op) == Merge(AutoConfig(op.entityType), op.customConfig)

Complete(cfg) == DOMAIN AutoConfig("Users") \subseteq DOMAIN cfg

C23_Isolation ==
    /\ \A o \in Started :
        /\ KeyOf(ops[o]) \in DOMAIN cache
        /\ cache[KeyOf(ops[o])] = ops[o].config
        /\ ops[o].config = OwnConfig(ops[o])
    /\ \A k \in DOMAIN cache : Complete(cache[k])

(***************************************************************************)
(* C27: getEntityConfig(e, o) returns the auto-discovered defaults         *)
(* overlaid with o, and two distinct (entity type, overrides) pairs never  *)
(* resolve to the same cache entry: not when the overrides differ only in  *)
(* a key whose value is undefined, not when the entity name contains the   *)
(* separator of the key.                                                   *)
(***************************************************************************)
PairOf(op) == <<op.entityType, op.customConfig>>

C27_Resolution ==
    [][/\ \A o \in DOMAIN ops :
            (ops[o].pc = "idle" /\ ops'[o].pc = "awaiting") =>
                ops'[o].config = OwnConfig(ops'[o])
       /\ \A o, q \in DOMAIN ops' :
            (ops'[o].pc # "idle" /\ ops'[q].pc # "idle" /\ PairOf(ops'[o]) # PairOf(ops'[q]))
                => KeyOf(ops'[o]) # KeyOf(ops'[q])]_vars


====
